---- MODULE Spec2Model ----
(***************************************************************************)
(* A model of nibabel's PAR/REC header (src/nibabel/parrec.py): the        *)
(* PARRECHeader object built from the "general information" mapping and    *)
(* the image-definition table, and the values it derives from them (shape, *)
(* zooms, affine, scaling, slice orientation, data offset), its copies,   *)
(* and parse_PAR_header, which reads both from the lines of a PAR file.    *)
(*                                                                         *)
(* Floating point numbers are modelled as exact rationals <<n, d>> in      *)
(* lowest terms with d > 0; <<1, 0>>, <<-1, 0>> and <<0, 0>> stand for     *)
(* +inf, -inf and nan, which numpy's array division produces instead of    *)
(* raising. Rounding is not modelled.                                      *)
(***************************************************************************)
EXTENDS Integers, Sequences, FiniteSets, TLC

VARIABLES general_info, image_defs, default_scaling, _slice_orientation,
          obj, dtype, shape, zooms, init_log, call, fobj, copied

vars == <<general_info, image_defs, default_scaling, _slice_orientation,
          obj, dtype, shape, zooms, init_log, call, fobj, copied>>

\* The header object's own state: what a method of the header may read or write.
hdr == <<general_info, image_defs, default_scaling, _slice_orientation,
         obj, dtype, shape, zooms>>

\* What lives outside the header object: the lines of the PAR file handed to
\* parse_PAR_header, and the header that copy() or from_header returned.
env == <<fobj, copied>>

(***************************************************************************)
(* Bounds of the model.                                                    *)
(***************************************************************************)
\* Largest number of image-definition records in a table.
MaxRecs == 3
\* Largest number of records in the tables whose slice, echo and dynamic
\* scan numbers vary record by record.
MaxVolRecs == 2
\* Largest number of lines in a PAR file.
MaxLines == 2

(***************************************************************************)
(* Rational arithmetic (Python float / numpy float64, without rounding).   *)
(* TLC evaluates an operator's argument at each of its uses; the operators *)
(* below bind their operands once (x \in {a}) before combining them.       *)
(***************************************************************************)
Abs(x) == IF x < 0 THEN -x ELSE x

Sign(x) == IF x < 0 THEN -1 ELSE IF x > 0 THEN 1 ELSE 0

RECURSIVE GCD(_, _)
GCD(a, b) == IF b = 0 THEN a ELSE GCD(b, a % b)

\* n/d in lowest terms with a positive denominator; x/0 is +-inf, 0/0 is nan.
RNormV(n, d) ==
    IF d = 0 THEN <<Sign(n), 0>>
    ELSE LET g == GCD(Abs(n), Abs(d))
             s == Sign(d)
         IN  <<(s * n) \div g, (s * d) \div g>>

RNorm(n, d) == CHOOSE r \in {RNormV(x, y) : x \in {n}, y \in {d}} : TRUE

F(n) == <<n, 1>>

\* The operands are evaluated once, then combined.
RAddV(a, b) ==
    IF a[2] = 0 /\ b[2] = 0
    THEN (IF a = b THEN a ELSE <<0, 0>>)
    ELSE RNorm(a[1] * b[2] + b[1] * a[2], a[2] * b[2])

RAdd(a, b) == CHOOSE r \in {RAddV(x, y) : x \in {a}, y \in {b}} : TRUE

RNeg(a) == CHOOSE r \in {<<-x[1], x[2]>> : x \in {a}} : TRUE

RMul(a, b) ==
    CHOOSE r \in {RNorm(x[1] * y[1], x[2] * y[2]) : x \in {a}, y \in {b}} : TRUE

RDiv(a, b) ==
    CHOOSE r \in {RNorm(x[1] * y[2], x[2] * y[1]) : x \in {a}, y \in {b}} : TRUE

\* Python's == on floats: nan equals nothing, itself included.
REq(a, b) == a # <<0, 0>> /\ a = b

(***************************************************************************)
(* Results of calls: a value, or the exception that was raised.            *)
(***************************************************************************)
Ok(v) == [status |-> "ok", val |-> v]

Err(e) == [status |-> e, val |-> <<>>]

NotCalled == [status |-> "notcalled", val |-> <<>>]

IsOk(r) == r.status = "ok"

(***************************************************************************)
(* The image-definition schema (the fields the header's methods read) and  *)
(* the table: a sequence of records, each a function from field name to a  *)
(* scalar or to a tuple (a fixed-shape array field).                       *)
(***************************************************************************)
\* Field name -> the shape of the field; <<>> for a scalar field.
image_def_dtd ==
    [name \in {"slice number", "echo number", "dynamic scan number",
               "image pixel size", "recon resolution", "rescale intercept",
               "rescale slope", "scale slope", "slice thickness", "slice gap",
               "slice orientation", "pixel spacing"} |->
        IF name \in {"recon resolution", "pixel spacing"} THEN <<2>> ELSE <<>>]

\* image_defs[name]: the column of a field, one entry per record.
Column(defs, name) == [i \in 1..Len(defs) |-> defs[i][name]]

\* np.unique: the distinct elements of a (flattened) array.
np_unique(xs) == {xs[i] : i \in 1..Len(xs)}

RECURSIVE np_prod(_)
np_prod(ns) == IF ns = <<>> THEN 1 ELSE Head(ns) * np_prod(Tail(ns))

\* PARRECHeader._get_unique_image_prop. For an array field prop has one more
\* axis than the record axis and prop[i], i < len(prop.shape), is RECORD i:
\* the loop reads the first len(prop.shape) records, each flattened, and
\* raises IndexError when the table has fewer records than that.
_get_unique_image_prop(defs, name) ==
    LET prop == Column(defs, name)
        ndim == 1 + Len(image_def_dtd[name])
    IN  IF ndim > 1 /\ Len(prop) < ndim
        THEN Err("IndexError")
        ELSE LET uprops == IF ndim > 1
                           THEN [i \in 1..ndim |-> np_unique(prop[i])]
                           ELSE <<np_unique(prop)>>
                 lens == [i \in 1..Len(uprops) |-> Cardinality(uprops[i])]
             IN  IF np_prod(lens) # 1
                 THEN Err("PARRECError")
                 ELSE Ok([i \in 1..Len(uprops) |-> CHOOSE x \in uprops[i] : TRUE])

(***************************************************************************)
(* Derived values: pure functions of general_info and image_defs.          *)
(***************************************************************************)
\* PARRECHeader.get_voxel_size
get_voxel_size(defs) ==
    LET slice_thickness == _get_unique_image_prop(defs, "slice thickness")
        voxsize_inplane == _get_unique_image_prop(defs, "pixel spacing")
    IN  IF ~IsOk(slice_thickness) THEN slice_thickness
        ELSE IF ~IsOk(voxsize_inplane) THEN voxsize_inplane
        ELSE Ok(<<voxsize_inplane.val[1], voxsize_inplane.val[2],
                  slice_thickness.val[1]>>)

\* PARRECHeader.get_data_offset
get_data_offset == 0

\* The mutant: only a negative offset is refused.
set_data_offset_negative(offset) ==
    IF offset < 0 THEN Err("PARRECError") ELSE Ok(<<>>)

\* PARRECHeader.set_data_offset: its outcome; it assigns nothing.
set_data_offset(offset) ==
    IF offset # 0 THEN Err("PARRECError") ELSE Ok(<<>>)

\* PARRECHeader.get_ndim
get_ndim(info) ==
    IF \/ info.max_dynamics > 1
       \/ info.max_gradient_orient > 1
       \/ info.max_echoes > 1
    THEN 4 ELSE 3

\* PARRECHeader._get_zooms
_get_zooms(info, defs) ==
    LET slice_gap == _get_unique_image_prop(defs, "slice gap")
        voxsize == get_voxel_size(defs)
        ndim == get_ndim(info)
    IN  IF ~IsOk(slice_gap) THEN slice_gap
        ELSE IF ~IsOk(voxsize) THEN voxsize
        ELSE Ok([i \in 1..ndim |->
                    IF i <= 2 THEN voxsize.val[i]
                    ELSE IF i = 3 THEN RAdd(voxsize.val[3], slice_gap.val[1])
                    ELSE IF info.max_dynamics > 1
                         THEN RDiv(info.repetition_time, F(1000))
                         ELSE F(1)])

\* The number of entries of lens that exceed 1.
CountOver1(lens) == Cardinality({i \in 1..Len(lens) : lens[i] > 1})

\* The volume axis appended to the spatial shape.
VolumeAxis(ndynamics, ndtivolumes, nechos) ==
    IF ndynamics > 1 THEN <<ndynamics>>
    ELSE IF ndtivolumes > 1 THEN <<ndtivolumes>>
    ELSE IF nechos > 1 THEN <<nechos>>
    ELSE <<>>

\* The mutant: the slice count is not compared with max_slices.
get_data_shape_in_file_nocheck(info, defs) ==
    LET ndynamics == Cardinality(np_unique(Column(defs, "dynamic scan number")))
        ndtivolumes == (info.max_diffusion_values - 1) * info.max_gradient_orient
        nslices == Cardinality(np_unique(Column(defs, "slice number")))
        nechos == Cardinality(np_unique(Column(defs, "echo number")))
        inplane_shape == _get_unique_image_prop(defs, "recon resolution")
    IN  IF CountOver1(<<ndynamics, ndtivolumes, nechos>>) > 1
        THEN Err("RuntimeError")
        ELSE IF ~IsOk(inplane_shape) THEN inplane_shape
        ELSE Ok(inplane_shape.val \o <<nslices>>
                \o VolumeAxis(ndynamics, ndtivolumes, nechos))

\* The mutant: with several candidate axes the first one is taken silently.
get_data_shape_in_file_silent(info, defs) ==
    LET ndynamics == Cardinality(np_unique(Column(defs, "dynamic scan number")))
        ndtivolumes == (info.max_diffusion_values - 1) * info.max_gradient_orient
        nslices == Cardinality(np_unique(Column(defs, "slice number")))
        nechos == Cardinality(np_unique(Column(defs, "echo number")))
        inplane_shape == _get_unique_image_prop(defs, "recon resolution")
    IN  IF nslices # info.max_slices THEN Err("PARRECError")
        ELSE IF ~IsOk(inplane_shape) THEN inplane_shape
        ELSE Ok(inplane_shape.val \o <<nslices>>
                \o VolumeAxis(ndynamics, ndtivolumes, nechos))

\* PARRECHeader.get_data_shape_in_file
get_data_shape_in_file(info, defs) ==
    LET ndynamics == Cardinality(np_unique(Column(defs, "dynamic scan number")))
        ndtivolumes == (info.max_diffusion_values - 1) * info.max_gradient_orient
        nslices == Cardinality(np_unique(Column(defs, "slice number")))
        nechos == Cardinality(np_unique(Column(defs, "echo number")))
        lens == <<ndynamics, ndtivolumes, nechos>>
        inplane_shape == _get_unique_image_prop(defs, "recon resolution")
    IN  IF nslices # info.max_slices THEN Err("PARRECError")
        ELSE IF CountOver1(lens) > 1 THEN Err("RuntimeError")
        ELSE IF ~IsOk(inplane_shape) THEN inplane_shape
        ELSE Ok(inplane_shape.val \o <<nslices>>
                \o VolumeAxis(ndynamics, ndtivolumes, nechos))

\* The mutant: 'fp' divides the intercept by the scale slope alone.
get_data_scaling_fp_ss(defs, method) ==
    LET scale_slope == _get_unique_image_prop(defs, "scale slope")
        rescale_slope == _get_unique_image_prop(defs, "rescale slope")
        rescale_intercept == _get_unique_image_prop(defs, "rescale intercept")
    IN  IF ~IsOk(scale_slope) THEN scale_slope
        ELSE IF ~IsOk(rescale_slope) THEN rescale_slope
        ELSE IF ~IsOk(rescale_intercept) THEN rescale_intercept
        ELSE IF method = "dv"
             THEN Ok(<<rescale_slope.val[1], rescale_intercept.val[1]>>)
        ELSE IF method = "fp"
             THEN Ok(<<RDiv(F(1), scale_slope.val[1]),
                       RDiv(rescale_intercept.val[1], scale_slope.val[1])>>)
        ELSE Err("ValueError")

\* PARRECHeader.get_data_scaling
get_data_scaling(defs, method) ==
    LET scale_slope == _get_unique_image_prop(defs, "scale slope")
        rescale_slope == _get_unique_image_prop(defs, "rescale slope")
        rescale_intercept == _get_unique_image_prop(defs, "rescale intercept")
    IN  IF ~IsOk(scale_slope) THEN scale_slope
        ELSE IF ~IsOk(rescale_slope) THEN rescale_slope
        ELSE IF ~IsOk(rescale_intercept) THEN rescale_intercept
        ELSE IF method = "dv"
             THEN Ok(<<rescale_slope.val[1], rescale_intercept.val[1]>>)
        ELSE IF method = "fp"
             THEN Ok(<<RDiv(F(1), scale_slope.val[1]),
                       RDiv(rescale_intercept.val[1],
                            RMul(rescale_slope.val[1], scale_slope.val[1]))>>)
        ELSE Err("ValueError")

\* PARRECHeader.get_slope_inter
get_slope_inter(defs, default) == get_data_scaling(defs, default)

(***************************************************************************)
(* Matrices: tuples of rows of rationals.                                  *)
(***************************************************************************)
IntMat(m) == [i \in 1..Len(m) |-> [j \in 1..Len(m[i]) |-> F(m[i][j])]]

\* The sum over k <= n of a[i][k] * b[k][j].
RECURSIVE RowCol(_, _, _, _, _)
RowCol(a, b, i, j, n) ==
    IF n = 0 THEN F(0)
    ELSE RAdd(RowCol(a, b, i, j, n - 1), RMul(a[i][n], b[n][j]))

\* np.dot of two square matrices.
np_dot(A, B) ==
    CHOOSE M \in {[i \in 1..Len(a) |-> [j \in 1..Len(a) |->
                      RowCol(a, b, i, j, Len(a))]] : a \in {A}, b \in {B}} : TRUE

\* np.diag of a vector.
np_diag(v) ==
    CHOOSE M \in {[i \in 1..Len(x) |-> [j \in 1..Len(x) |->
                      IF i = j THEN x[i] ELSE F(0)]] : x \in {v}} : TRUE

np_eye3 == IntMat(<<<<1, 0, 0>>, <<0, 1, 0>>, <<0, 0, 1>>>>)

\* affines.from_matvec: the 4x4 affine of a 3x3 matrix and a translation.
from_matvec(M, v) ==
    CHOOSE A \in {[i \in 1..4 |-> [j \in 1..4 |->
                      IF i <= 3 /\ j <= 3 THEN m[i][j]
                      ELSE IF i <= 3 THEN x[i]
                      ELSE IF j = 4 THEN F(1) ELSE F(0)]]
                  : m \in {M}, x \in {v}} : TRUE

\* affines.dot_reduce of four matrices.
dot_reduce(A, B, C, D) == np_dot(np_dot(np_dot(A, B), C), D)

\* cos and sin of an angle given in degrees, exact at the multiples of 90.
CosDeg(a) == LET r == a[1] % 360
             IN  IF r = 0 THEN F(1) ELSE IF r = 180 THEN F(-1) ELSE F(0)

SinDeg(a) == LET r == a[1] % 360
             IN  IF r = 90 THEN F(1) ELSE IF r = 270 THEN F(-1) ELSE F(0)

\* eulerangles.euler2mat(z, y, x): rotation about z, then y, then x.
euler2mat(z, y, x) ==
    LET Rz == <<<<CosDeg(z), RNeg(SinDeg(z)), F(0)>>,
                <<SinDeg(z), CosDeg(z), F(0)>>,
                <<F(0), F(0), F(1)>>>>
        Ry == <<<<CosDeg(y), F(0), SinDeg(y)>>,
                <<F(0), F(1), F(0)>>,
                <<RNeg(SinDeg(y)), F(0), CosDeg(y)>>>>
        Rx == <<<<F(1), F(0), F(0)>>,
                <<F(0), CosDeg(x), RNeg(SinDeg(x))>>,
                <<F(0), SinDeg(x), CosDeg(x)>>>>
    IN  np_dot(Rx, np_dot(Ry, Rz))

\* PSL to RAS affine
PSL_TO_RAS ==
    IntMat(<<<< 0, 0, -1, 0>>,
             <<-1, 0,  0, 0>>,
             << 0, 1,  0, 0>>,
             << 0, 0,  0, 1>>>>)

\* Acquisition (tra/sag/cor) to PSL axes
ACQ_TO_PSL ==
    [transverse |-> IntMat(<<<<0, 1, 0, 0>>,
                             <<0, 0, 1, 0>>,
                             <<1, 0, 0, 0>>,
                             <<0, 0, 0, 1>>>>),
     sagittal   |-> IntMat(<<<<1,  0,  0, 0>>,
                             <<0, -1,  0, 0>>,
                             <<0,  0, -1, 0>>,
                             <<0,  0,  0, 1>>>>),
     coronal    |-> IntMat(<<<<0,  0, 1, 0>>,
                             <<0, -1, 0, 0>>,
                             <<1,  0, 0, 0>>,
                             <<0,  0, 0, 1>>>>)]

\* slice orientation codes: code -> label
slice_orientation_codes ==
    [code \in {1, 2, 3} |->
        IF code = 1 THEN "transverse"
        ELSE IF code = 2 THEN "sagittal" ELSE "coronal"]

\* Recoder's lookup of a label by code; an unknown code fails.
Recoder_label(code) ==
    IF code \in DOMAIN slice_orientation_codes
    THEN Ok(slice_orientation_codes[code])
    ELSE Err("UnknownOrientationError")

\* The mutant: a failed lookup is remembered too.
get_slice_orientation_keepfailure(cache, defs) ==
    IF cache = "None"
    THEN LET code == _get_unique_image_prop(defs, "slice orientation")
             label == IF IsOk(code) THEN Recoder_label(code.val[1]) ELSE code
         IN  [res |-> label, cache |-> IF IsOk(label) THEN label.val ELSE label.status]
    ELSE [res |-> Ok(cache), cache |-> cache]

\* PARRECHeader.get_slice_orientation: the result and the cache it leaves.
get_slice_orientation(cache, defs) ==
    IF cache = "None"
    THEN LET code == _get_unique_image_prop(defs, "slice orientation")
             label == IF IsOk(code) THEN Recoder_label(code.val[1]) ELSE code
         IN  IF IsOk(label)
             THEN [res |-> label, cache |-> label.val]
             ELSE [res |-> label, cache |-> cache]
    ELSE [res |-> Ok(cache), cache |-> cache]

\* psl_aff[:3, 3] += iso_offset
AddTranslation(A, v) ==
    CHOOSE M \in {[i \in 1..4 |-> [j \in 1..4 |->
                      IF i <= 3 /\ j = 4 THEN RAdd(a[i][j], x[i]) ELSE a[i][j]]]
                  : a \in {A}, x \in {v}} : TRUE

\* The mutant: the offset is added for either origin.
get_affine_anyorigin(info, shp, zms, cache, defs, origin) ==
    LET so == get_slice_orientation(cache, defs)
    IN  IF ~IsOk(so.res) THEN so
        ELSE [res |-> Ok(np_dot(PSL_TO_RAS, AddTranslation(
                        dot_reduce(
                            from_matvec(euler2mat(info.angulation[3],
                                                  info.angulation[2],
                                                  info.angulation[1]),
                                        <<F(0), F(0), F(0)>>),
                            ACQ_TO_PSL[so.res.val],
                            np_diag(<<zms[1], zms[2], zms[3], F(1)>>),
                            from_matvec(np_eye3,
                                [i \in 1..3 |-> RNeg(RDiv(F(shp[i] - 1), F(2)))])),
                        info.off_center))),
              cache |-> so.cache]

\* The mutant: the transverse matrix is used whatever the orientation.
get_affine_transverse(info, shp, zms, cache, defs, origin) ==
    LET so == get_slice_orientation(cache, defs)
        psl_aff == dot_reduce(
                       from_matvec(euler2mat(info.angulation[3],
                                             info.angulation[2],
                                             info.angulation[1]),
                                   <<F(0), F(0), F(0)>>),
                       ACQ_TO_PSL["transverse"],
                       np_diag(<<zms[1], zms[2], zms[3], F(1)>>),
                       from_matvec(np_eye3,
                           [i \in 1..3 |-> RNeg(RDiv(F(shp[i] - 1), F(2)))]))
    IN  [res |-> Ok(np_dot(PSL_TO_RAS,
                           IF origin = "scanner"
                           THEN AddTranslation(psl_aff, info.off_center)
                           ELSE psl_aff)),
         cache |-> so.cache]

\* PARRECHeader.get_affine: the result and the slice-orientation cache it
\* leaves. shp and zms are the stored get_data_shape() and get_zooms().
get_affine(info, shp, zms, cache, defs, origin) ==
    LET ijk_shape == SubSeq(shp, 1, 3)
        to_center == from_matvec(np_eye3,
                         [i \in 1..3 |-> RNeg(RDiv(F(ijk_shape[i] - 1), F(2)))])
        zoomer == np_diag(SubSeq(zms, 1, 3) \o <<F(1)>>)
        so == get_slice_orientation(cache, defs)
    IN  IF ~IsOk(so.res) THEN so
        ELSE IF so.res.val \notin DOMAIN ACQ_TO_PSL
        THEN [res |-> Err("PARRECError"), cache |-> so.cache]
        ELSE LET permute_to_psl == ACQ_TO_PSL[so.res.val]
                 rot == from_matvec(euler2mat(info.angulation[3],
                                              info.angulation[2],
                                              info.angulation[1]),
                                    <<F(0), F(0), F(0)>>)
                 psl_aff == dot_reduce(rot, permute_to_psl, zoomer, to_center)
                 psl_off == IF origin = "scanner"
                            THEN AddTranslation(psl_aff, info.off_center)
                            ELSE psl_aff
             IN  [res |-> Ok(np_dot(PSL_TO_RAS, psl_off)), cache |-> so.cache]

\* np.typeDict['int' + str(bits)]
np_typeDict_int(bits) ==
    IF bits \in {8, 16, 32, 64}
    THEN Ok(IF bits = 8 THEN "int8" ELSE IF bits = 16 THEN "int16"
            ELSE IF bits = 32 THEN "int32" ELSE "int64")
    ELSE Err("KeyError")

(***************************************************************************)
(* Inputs: general_info mappings and image-definition tables.              *)
(***************************************************************************)
MkInfo(ms, md, mgo, me, mdv, tr, ang, off) ==
    [max_slices |-> ms, max_dynamics |-> md, max_gradient_orient |-> mgo,
     max_echoes |-> me, max_diffusion_values |-> mdv, repetition_time |-> tr,
     angulation |-> ang, off_center |-> off]

MkDef(sl, ec, dy, bits, rr, ri, rs, ss, th, gap, so, ps) ==
    ("slice number" :> sl) @@ ("echo number" :> ec)
    @@ ("dynamic scan number" :> dy) @@ ("image pixel size" :> bits)
    @@ ("recon resolution" :> rr) @@ ("rescale intercept" :> ri)
    @@ ("rescale slope" :> rs) @@ ("scale slope" :> ss)
    @@ ("slice thickness" :> th) @@ ("slice gap" :> gap)
    @@ ("slice orientation" :> so) @@ ("pixel spacing" :> ps)

Zero3 == <<F(0), F(0), F(0)>>

\* A well-formed single-volume header: one slice, 64x64 in plane, 3.75 mm
\* pixels, 6 mm slices 2 mm apart, transverse, RS = 1.5, SS = 2, RI = 0.
BaseInfo == MkInfo(1, 1, 1, 1, 1, F(2000), Zero3, Zero3)

BaseDef == MkDef(1, 1, 1, 16, <<64, 64>>, F(0), <<3, 2>>, F(2),
                 F(6), F(2), 1, <<<<15, 4>>, <<15, 4>>>>)

\* Slice, echo and dynamic scan numbers of a record.
Idx == {1, 2}

\* All tables of lo..hi records drawn from a set of records.
Tables(lo, hi, defs) == UNION {[1..n -> defs] : n \in lo..hi}

\* Tables of n identical records.
Uniform(lo, hi, defs) == {[i \in 1..n |-> d] : n \in lo..hi, d \in defs}

Methods == {"dv", "fp", "xx"}

Origins == {"scanner", "fov"}

Offsets == {-1, 0, 1, 352}

NoCall == [op |-> "none", arg |-> <<>>, res |-> NotCalled]

NoLog == [default_scaling |-> "omitted", pixel_size |-> NotCalled,
          dtype |-> NotCalled, shape |-> NotCalled, zooms |-> NotCalled]

\* The arguments of the constructor are chosen; __init__ has not run yet.
\* Until it has, default_scaling holds the argument passed for it, "omitted"
\* when the caller passes none; init_log keeps that argument and what each
\* call made by __init__ returned, and call the last call made on the object.
InitWith(infos, tables, scalings) ==
    /\ general_info \in infos
    /\ image_defs \in tables
    /\ default_scaling \in scalings
    /\ _slice_orientation = "None"
    /\ obj = "new"
    /\ dtype = "None"
    /\ shape = <<>>
    /\ zooms = <<>>
    /\ init_log = NoLog
    /\ call = NoCall
    /\ fobj = <<>>
    /\ copied = <<>>

(***************************************************************************)
(* Operations.                                                             *)
(***************************************************************************)
\* The base class's Header.__init__: stores dtype, shape and zooms.
Header__init__(dt, shp, zms) ==
    /\ dtype' = dt
    /\ shape' = shp
    /\ zooms' = zms

\* PARRECHeader.__init__: the arguments of Header.__init__ are evaluated in
\* order (dtype, shape, zooms); the first exception ends the construction.
__init__ ==
    /\ obj = "new"
    /\ LET pix == _get_unique_image_prop(image_defs, "image pixel size")
           dt == IF IsOk(pix) THEN np_typeDict_int(pix.val[1]) ELSE NotCalled
           shp == IF IsOk(dt)
                  THEN get_data_shape_in_file(general_info, image_defs)
                  ELSE NotCalled
           zms == IF IsOk(dt) /\ IsOk(shp)
                  THEN _get_zooms(general_info, image_defs)
                  ELSE NotCalled
       IN  /\ init_log' = [default_scaling |-> default_scaling,
                           pixel_size |-> pix, dtype |-> dt, shape |-> shp,
                           zooms |-> zms]
           /\ IF IsOk(dt) /\ IsOk(shp) /\ IsOk(zms)
              THEN /\ Header__init__(dt.val, shp.val, zms.val)
                   /\ obj' = "live"
                   /\ call' = [op |-> "__init__", arg |-> <<>>, res |-> Ok(<<>>)]
              ELSE /\ UNCHANGED <<dtype, shape, zooms>>
                   /\ obj' = "failed"
                   /\ call' = [op |-> "__init__", arg |-> <<>>,
                               res |-> IF ~IsOk(pix) THEN pix
                                       ELSE IF ~IsOk(dt) THEN dt
                                       ELSE IF ~IsOk(shp) THEN shp ELSE zms]
    /\ _slice_orientation' = "None"
    /\ default_scaling' = IF default_scaling = "omitted" THEN "dv"
                          ELSE default_scaling
    /\ UNCHANGED <<general_info, image_defs, env>>

\* A call of a method that assigns nothing.
Returns(op, arg, res) ==
    /\ obj = "live"
    /\ call' = [op |-> op, arg |-> arg, res |-> res]
    /\ UNCHANGED <<hdr, init_log, env>>

Call__get_unique_image_prop ==
    \E name \in DOMAIN image_def_dtd :
        Returns("_get_unique_image_prop", <<name>>,
                _get_unique_image_prop(image_defs, name))

Call_get_voxel_size ==
    Returns("get_voxel_size", <<>>, get_voxel_size(image_defs))

Call_get_data_offset ==
    Returns("get_data_offset", <<>>, Ok(get_data_offset))

Call_set_data_offset ==
    \E offset \in Offsets :
        Returns("set_data_offset", <<offset>>, set_data_offset(offset))

Call_get_ndim ==
    Returns("get_ndim", <<>>, Ok(get_ndim(general_info)))

Call__get_zooms ==
    Returns("_get_zooms", <<>>, _get_zooms(general_info, image_defs))

Call_get_data_shape_in_file ==
    Returns("get_data_shape_in_file", <<>>,
            get_data_shape_in_file(general_info, image_defs))

Call_get_data_scaling ==
    \E method \in Methods :
        Returns("get_data_scaling", <<method>>,
                get_data_scaling(image_defs, method))

Call_get_slope_inter ==
    Returns("get_slope_inter", <<>>,
            get_slope_inter(image_defs, default_scaling))

Call_get_slice_orientation ==
    /\ obj = "live"
    /\ \E r \in {get_slice_orientation(_slice_orientation, image_defs)} :
           /\ call' = [op |-> "get_slice_orientation", arg |-> <<>>,
                       res |-> r.res]
           /\ _slice_orientation' = r.cache
    /\ UNCHANGED <<general_info, image_defs, default_scaling, obj, dtype,
                   shape, zooms, init_log, env>>

Call_get_affine ==
    /\ obj = "live"
    /\ \E origin \in Origins :
        \E r \in {get_affine(general_info, shape, zooms, _slice_orientation,
                             image_defs, origin)} :
            /\ call' = [op |-> "get_affine", arg |-> <<origin>>, res |-> r.res]
            /\ _slice_orientation' = r.cache
    /\ UNCHANGED <<general_info, image_defs, default_scaling, obj, dtype,
                   shape, zooms, init_log, env>>

\* PARRECHeader.raw_data_from_fileobj: the read it asks array_from_file for.
raw_data_from_fileobj(shp, dt) ==
    Ok([shape |-> shp, dtype |-> dt, offset |-> get_data_offset])

Call_raw_data_from_fileobj ==
    Returns("raw_data_from_fileobj", <<>>, raw_data_from_fileobj(shape, dtype))

Next ==
    \/ __init__
    \/ Call__get_unique_image_prop
    \/ Call_get_voxel_size
    \/ Call_get_data_offset
    \/ Call_set_data_offset
    \/ Call_get_ndim
    \/ Call__get_zooms
    \/ Call_get_data_shape_in_file
    \/ Call_get_data_scaling
    \/ Call_get_slope_inter
    \/ Call_get_slice_orientation
    \/ Call_get_affine
    \/ Call_raw_data_from_fileobj

(***************************************************************************)
(* Specifications: the same operations from different families of inputs.  *)
(***************************************************************************)
\* Headers of 0..MaxRecs identical records, of any orientation code.
Init ==
    InitWith({[BaseInfo EXCEPT !.max_dynamics = md] : md \in {1, 2}},
             Uniform(0, MaxRecs,
                     {[BaseDef EXCEPT !["slice orientation"] = so] : so \in 0..4}),
             {"omitted", "fp"})

Spec == Init /\ [][Next]_vars

(***************************************************************************)
(* SpecShape: the volume shape. Tables of 1..MaxVolRecs records whose      *)
(* slice, echo and dynamic scan numbers vary record by record, with one    *)
(* recon resolution (square or not) and one pixel size on every record.    *)
(***************************************************************************)
ShapeInfos ==
    {MkInfo(ms, md, dti[2], me, dti[1], F(2000), Zero3, Zero3) :
        ms \in Idx, md \in {1, 5}, me \in {1, 2},
        dti \in {<<1, 1>>, <<2, 1>>, <<3, 1>>, <<2, 2>>}}

ShapeTables ==
    {[i \in 1..Len(t) |->
        [BaseDef EXCEPT !["slice number"] = t[i][1],
                        !["echo number"] = t[i][2],
                        !["dynamic scan number"] = t[i][3],
                        !["image pixel size"] = bits,
                        !["recon resolution"] = rr]] :
        t \in Tables(1, MaxVolRecs, Idx \X Idx \X Idx),
        bits \in {16, 12},
        rr \in {<<64, 64>>, <<64, 80>>}}

InitShape == InitWith(ShapeInfos, ShapeTables, {"omitted"})

NextShape ==
    \/ __init__
    \/ Call_get_data_shape_in_file
    \/ Call_get_ndim

SpecShape == InitShape /\ [][NextShape]_vars

\* What the claims read off a state.
NRecords == Len(image_defs)

Distinct(name) == Cardinality({image_defs[i][name] : i \in 1..NRecords})

NSlices == Distinct("slice number")

NDyn == Distinct("dynamic scan number")

NEchoes == Distinct("echo number")

NDti == (general_info.max_diffusion_values - 1) * general_info.max_gradient_orient

\* How many of ndyn, ndti, nechoes exceed 1.
NVarying ==
    (IF NDyn > 1 THEN 1 ELSE 0) + (IF NDti > 1 THEN 1 ELSE 0)
    + (IF NEchoes > 1 THEN 1 ELSE 0)

\* Every record holds the same value of the field.
Homogeneous(name) ==
    \A i, j \in 1..NRecords : image_defs[i][name] = image_defs[j][name]

\* get_data_shape_in_file has been called in this state, by the caller or by
\* __init__, and ShapeRes is what it returned.
ShapeCalled ==
    \/ call.op = "get_data_shape_in_file"
    \/ call.op = "__init__" /\ init_log.shape.status # "notcalled"

ShapeRes ==
    IF call.op = "get_data_shape_in_file" THEN call.res ELSE init_log.shape

\* C1: when the slice count matches max_slices, at most one of ndyn, ndti,
\* nechoes exceeds 1 and every record holds the same recon resolution
\* (nx, ny), get_data_shape_in_file returns (nx, ny, nslices) followed by
\* ndyn if ndyn > 1, else ndti if ndti > 1, else nechoes if nechoes > 1, else
\* nothing: for every nx, ny, equal or not, and any number of records >= 1.
C1_VolumeShape ==
    ( /\ ShapeCalled
      /\ NRecords >= 1
      /\ NSlices = general_info.max_slices
      /\ NVarying <= 1
      /\ Homogeneous("recon resolution") )
    => ShapeRes =
         Ok(image_defs[1]["recon resolution"] \o <<NSlices>>
            \o (IF NDyn > 1 THEN <<NDyn>>
                ELSE IF NDti > 1 THEN <<NDti>>
                ELSE IF NEchoes > 1 THEN <<NEchoes>>
                ELSE <<>>))

\* C3: whenever the number of distinct slice numbers differs from
\* max_slices, get_data_shape_in_file fails with PARRECError, and so the
\* construction fails and stores nothing; every constructed header has as
\* many distinct slice numbers as max_slices.
C3_SliceCountChecked ==
    /\ (ShapeCalled /\ NSlices # general_info.max_slices)
          => ShapeRes = Err("PARRECError")
    /\ (obj # "new" /\ NSlices # general_info.max_slices)
          => (obj = "failed" /\ shape = <<>> /\ zooms = <<>> /\ dtype = "None")
    /\ obj = "live" => NSlices = general_info.max_slices

C3_Witness ==
    /\ call.op = "__init__"
    /\ NSlices # general_info.max_slices
    /\ init_log.shape = Err("PARRECError")
    /\ obj = "failed"

\* C4: when the slice count matches max_slices, get_data_shape_in_file fails
\* with the ambiguous-dimension error (RuntimeError) if two or more of
\* ndyn > 1, ndti > 1, nechoes > 1 hold, and that check does not fail if at
\* most one holds.
C4_AmbiguousAxes ==
    (ShapeCalled /\ NSlices = general_info.max_slices)
    => /\ NVarying >= 2 => ShapeRes = Err("RuntimeError")
       /\ NVarying <= 1 => ShapeRes.status # "RuntimeError"

C4_Witness ==
    /\ call.op = "get_data_shape_in_file" \/ call.op = "__init__"
    /\ ShapeCalled
    /\ NSlices = general_info.max_slices
    /\ NDyn > 1
    /\ NEchoes > 1
    /\ NDti <= 1
    /\ ShapeRes = Err("RuntimeError")

\* C5: on a header with max_dynamics = 1, max_gradient_orient = 1 and
\* max_echoes = 1 get_data_shape_in_file is 3-dimensional; with
\* max_dynamics = 5 and the other two equal to 1 it is 4-dimensional with
\* 4th entry 5.
C5_ShapeFollowsMaxDynamics ==
    ( /\ obj = "live"
      /\ call.op = "get_data_shape_in_file"
      /\ general_info.max_gradient_orient = 1
      /\ general_info.max_echoes = 1 )
    => /\ general_info.max_dynamics = 1
            => (IsOk(call.res) /\ Len(call.res.val) = 3)
       /\ general_info.max_dynamics = 5
            => (IsOk(call.res) /\ Len(call.res.val) = 4 /\ call.res.val[4] = 5)

(***************************************************************************)
(* SpecUnique: _get_unique_image_prop. Tables of 0..MaxRecs records whose  *)
(* pixel size (a scalar field) and recon resolution (an array field) vary  *)
(* record by record.                                                       *)
(***************************************************************************)
UniqueTables ==
    Tables(0, MaxRecs,
           {[BaseDef EXCEPT !["image pixel size"] = bits,
                            !["recon resolution"] = rr] :
               bits \in {8, 16},
               rr \in {<<64, 64>>, <<64, 80>>, <<80, 80>>}})

InitUnique == InitWith({BaseInfo}, UniqueTables, {"omitted"})

NextUnique ==
    \/ __init__
    \/ Call__get_unique_image_prop

SpecUnique == InitUnique /\ [][NextUnique]_vars

\* The calls of _get_unique_image_prop seen in a state, as <<field, result>>:
\* the caller's, and the one __init__ makes for the pixel size.
UniqueCalls ==
    (IF call.op = "_get_unique_image_prop"
     THEN {<<call.arg[1], call.res>>} ELSE {})
    \cup
    (IF call.op = "__init__"
     THEN {<<"image pixel size", init_log.pixel_size>>} ELSE {})

\* C2: for every table (of at least one record) and field,
\* _get_unique_image_prop returns the single value all records hold (for an
\* array field the single combination of its elements), and fails with
\* PARRECError if and only if two records hold different values, wherever
\* they stand in the table.
C2_UniqueValue ==
    \A c \in UniqueCalls :
        NRecords >= 1 =>
            IF Homogeneous(c[1])
            THEN c[2] = Ok(IF image_def_dtd[c[1]] = <<>>
                           THEN <<image_defs[1][c[1]]>>
                           ELSE image_defs[1][c[1]])
            ELSE c[2] = Err("PARRECError")

(***************************************************************************)
(* SpecZooms: voxel size and zooms. Tables of 2..MaxVolRecs records whose  *)
(* echo and dynamic scan numbers and pixel spacing vary record by record,  *)
(* with one slice thickness and one slice gap on every record.             *)
(***************************************************************************)
ZoomInfos ==
    {[BaseInfo EXCEPT !.max_dynamics = md, !.max_echoes = me,
                      !.repetition_time = tr] :
        md \in {1, 2}, me \in {1, 2}, tr \in {F(2000), F(2500)}}

ZoomTables ==
    {[i \in 1..Len(t) |->
        [BaseDef EXCEPT !["echo number"] = t[i][1],
                        !["dynamic scan number"] = t[i][2],
                        !["pixel spacing"] = <<t[i][3], t[i][3]>>,
                        !["slice thickness"] = th,
                        !["slice gap"] = gap]] :
        t \in Tables(2, MaxVolRecs, Idx \X Idx \X {<<15, 4>>, F(2)}),
        th \in {F(6), <<5, 2>>},
        gap \in {F(2), F(0)}}

InitZooms == InitWith(ZoomInfos, ZoomTables, {"omitted"})

NextZooms ==
    \/ __init__
    \/ Call_get_voxel_size
    \/ Call__get_zooms
    \/ Call_get_ndim
    \/ Call_get_data_shape_in_file

SpecZooms == InitZooms /\ [][NextZooms]_vars

\* C6: _get_zooms returns the homogeneous pixel spacing in its first two
\* entries and slice thickness + slice gap in the third (get_voxel_size
\* keeps the slice thickness alone); a 4th entry equals repetition_time/1000
\* exactly when the 4th axis of the shape is the dynamics axis (the distinct
\* dynamic scan count exceeds 1), and 1.0 when it is an echo or diffusion axis.
C6_ZoomVector ==
    /\ (obj = "live" /\ call.op = "get_voxel_size" /\ IsOk(call.res))
          => call.res.val[3] = image_defs[1]["slice thickness"]
    /\ (obj = "live" /\ call.op = "_get_zooms" /\ IsOk(call.res))
          => /\ Homogeneous("pixel spacing")
                  => /\ call.res.val[1] = image_defs[1]["pixel spacing"][1]
                     /\ call.res.val[2] = image_defs[1]["pixel spacing"][2]
             /\ call.res.val[3] = RAdd(image_defs[1]["slice thickness"],
                                       image_defs[1]["slice gap"])
             /\ Len(call.res.val) >= 4
                  => /\ (call.res.val[4] = RDiv(general_info.repetition_time, F(1000)))
                            <=> (Len(shape) = 4 /\ NDyn > 1)
                     /\ (Len(shape) = 4 /\ NDyn <= 1) => call.res.val[4] = F(1)

(***************************************************************************)
(* SpecAffine: slice orientation and affine. Tables of 2..MaxRecs records, *)
(* record i being slice i, all with one orientation code (0..4), under     *)
(* angulations that are multiples of 90 degrees and zero or nonzero        *)
(* off-centre vectors.                                                     *)
(***************************************************************************)
Angles == {F(0), F(90)}

AffineInfos ==
    {[BaseInfo EXCEPT !.max_slices = ms, !.angulation = ang, !.off_center = off] :
        ms \in 2..MaxRecs,
        ang \in Angles \X Angles \X {F(0), F(270)},
        off \in {Zero3, <<F(10), F(-20), <<5, 2>>>>}}

AffineTables ==
    {[i \in 1..n |->
        [BaseDef EXCEPT !["slice number"] = i,
                        !["slice orientation"] = so,
                        !["recon resolution"] = rr]] :
        n \in 2..MaxRecs, so \in 0..4, rr \in {<<64, 64>>, <<3, 3>>}}

InitAffine ==
    /\ InitWith(AffineInfos, AffineTables, {"omitted"})
    /\ general_info.max_slices = Len(image_defs)

NextAffine ==
    \/ __init__
    \/ Call_get_slice_orientation
    \/ Call_get_affine

SpecAffine == InitAffine /\ [][NextAffine]_vars

\* The affine the header returns for an origin, in the current state.
AffineFor(origin) ==
    get_affine(general_info, shape, zooms, _slice_orientation, image_defs,
               origin).res.val

\* C7: whenever get_affine succeeds, the 'scanner' and the 'fov' affine have
\* the same upper-left 3x3 block and the same bottom row, and the translation
\* column of 'scanner' is that of 'fov' plus off_center (ap, fh, rl) mapped
\* from PSL to RAS, that is (-rl, -ap, fh); with off_center = 0 they are equal.
C7_OriginMovesTranslationOnly ==
    (obj = "live" /\ call.op = "get_affine" /\ IsOk(call.res))
    => \E other \in Origins \ {call.arg[1]} :
        \E pair \in {IF call.arg[1] = "scanner"
                     THEN <<call.res.val, AffineFor(other)>>
                     ELSE <<AffineFor(other), call.res.val>>} :
          LET scanner == pair[1]
              fov == pair[2]
              off == general_info.off_center
              moved == <<RNeg(off[3]), RNeg(off[1]), off[2]>>
          IN  /\ \A i, j \in 1..3 : scanner[i][j] = fov[i][j]
              /\ scanner[4] = fov[4]
              /\ \A i \in 1..3 : scanner[i][4] = RAdd(fov[i][4], moved[i])
              /\ off = Zero3 => scanner = fov

C7_Witness ==
    /\ obj = "live"
    /\ call.op = "get_affine"
    /\ call.arg = <<"scanner">>
    /\ IsOk(call.res)
    /\ general_info.off_center # Zero3
    /\ general_info.angulation # Zero3
    /\ call.res.val # AffineFor("fov")

\* The label the claim gives an orientation code.
LabelOfCode(c) ==
    IF c = 1 THEN "transverse" ELSE IF c = 2 THEN "sagittal" ELSE "coronal"

\* The upper-left 3x3 block of a 4x4 matrix.
Block3(A) == [i \in 1..3 |-> [j \in 1..3 |-> A[i][j]]]

\* C8: on a constructed header whose records all carry the orientation code
\* c: if c is outside {1, 2, 3}, get_affine fails with the unknown-orientation
\* error for either origin; if c is 1, 2 or 3, get_slice_orientation returns
\* transverse, sagittal or coronal and the 3x3 block of the affine is
\* PSL_TO_RAS . rotation . ACQ_TO_PSL[that label] . diag(zooms).
C8_OrientationCode ==
    (obj = "live" /\ Homogeneous("slice orientation"))
    => \E c \in {image_defs[1]["slice orientation"]} :
        IF c \notin {1, 2, 3}
        THEN call.op = "get_affine"
                => call.res = Err("UnknownOrientationError")
        ELSE /\ call.op = "get_slice_orientation"
                  => call.res = Ok(LabelOfCode(c))
             /\ call.op = "get_affine"
                  => /\ IsOk(call.res)
                     /\ Block3(call.res.val) =
                          Block3(dot_reduce(
                              PSL_TO_RAS,
                              from_matvec(euler2mat(general_info.angulation[3],
                                                    general_info.angulation[2],
                                                    general_info.angulation[1]),
                                          Zero3),
                              ACQ_TO_PSL[LabelOfCode(c)],
                              np_diag(<<zooms[1], zooms[2], zooms[3], F(1)>>)))

C8_Witness ==
    /\ obj = "live"
    /\ call.op = "get_affine"
    /\ Homogeneous("slice orientation")
    /\ image_defs[1]["slice orientation"] = 4
    /\ call.res = Err("UnknownOrientationError")
    /\ _slice_orientation = "None"

(***************************************************************************)
(* SpecScaling: slope and intercept. Tables of 1..MaxRecs records whose    *)
(* scale slope (0 or 2), rescale slope (0 or 1.5) and rescale intercept    *)
(* (0 or 3) vary record by record; the default method is left out, 'fp',   *)
(* or a method that does not exist.                                        *)
(***************************************************************************)
ScalingTables ==
    Tables(1, MaxRecs,
           {[BaseDef EXCEPT !["scale slope"] = ss,
                            !["rescale slope"] = rs,
                            !["rescale intercept"] = ri] :
               ss \in {F(2), F(0)}, rs \in {<<3, 2>>, F(0)}, ri \in {F(0), F(3)}})

InitScaling == InitWith({BaseInfo}, ScalingTables, {"omitted", "fp", "xx"})

NextScaling ==
    \/ __init__
    \/ Call_get_data_scaling
    \/ Call_get_slope_inter

SpecScaling == InitScaling /\ [][NextScaling]_vars

\* Stored pixel values the scaling is applied to.
PVs == {-1, 0, 10}

\* The series' scalars, read off the first record.
SS == image_defs[1]["scale slope"]

RS == image_defs[1]["rescale slope"]

RI == image_defs[1]["rescale intercept"]

\* What the claim says a method returns.
ClaimedScaling(method) ==
    IF method = "dv" THEN Ok(<<RS, RI>>)
    ELSE IF method = "fp"
         THEN Ok(<<RDiv(F(1), SS), RDiv(RI, RMul(RS, SS))>>)
    ELSE Err("ValueError")

\* (PV * slope + intercept) * RS * SS = PV * RS + RI for every stored value.
FpTimesRsSsIsDv(pair) ==
    \A pv \in PVs :
        REq(RMul(RAdd(RMul(F(pv), pair[1]), pair[2]), RMul(RS, SS)),
            RAdd(RMul(F(pv), RS), RI))

\* The header is constructed and its three scaling columns are homogeneous.
ScalingCase ==
    /\ obj = "live"
    /\ Homogeneous("scale slope")
    /\ Homogeneous("rescale slope")
    /\ Homogeneous("rescale intercept")

\* C9 as stated: get_data_scaling('dv') returns (RS, RI); 'fp' returns
\* (1/SS, RI/(RS*SS)), and for every stored value PV the fp-scaled value
\* times RS*SS equals PV*RS + RI; any other method fails with ValueError;
\* get_slope_inter returns the pair of the configured default method, which
\* is 'dv' unless another one was passed to the constructor.
C9_Scaling_AsStated ==
    ScalingCase
    => /\ call.op = "get_data_scaling"
            => /\ call.res = ClaimedScaling(call.arg[1])
               /\ call.arg[1] = "fp" => FpTimesRsSsIsDv(call.res.val)
       /\ call.op = "get_slope_inter"
            => call.res = ClaimedScaling(default_scaling)
       /\ default_scaling = IF init_log.default_scaling = "omitted" THEN "dv"
                            ELSE init_log.default_scaling

\* C9, amended: the same, the identity between the fp-scaled and the
\* dv-scaled value being claimed only when RS * SS is not zero (with a zero
\* slope the division yields inf or nan, not an error).
C9_Scaling ==
    ScalingCase
    => /\ call.op = "get_data_scaling"
            => /\ call.res = ClaimedScaling(call.arg[1])
               /\ (call.arg[1] = "fp" /\ RMul(RS, SS) # F(0))
                     => FpTimesRsSsIsDv(call.res.val)
       /\ call.op = "get_slope_inter"
            => call.res = ClaimedScaling(default_scaling)
       /\ default_scaling = IF init_log.default_scaling = "omitted" THEN "dv"
                            ELSE init_log.default_scaling

C9_Witness ==
    /\ ScalingCase
    /\ call.op = "get_data_scaling"
    /\ call.arg = <<"fp">>
    /\ RI # F(0)
    /\ RMul(RS, SS) # F(0)
    /\ call.res = Ok(<<<<1, 2>>, <<1, 1>>>>)

(***************************************************************************)
(* The data offset, under Spec (every operation, in any order).            *)
(***************************************************************************)
\* What holds of the last call, whatever was called before it.
OffsetCalls ==
    /\ call.op = "get_data_offset" => call.res = Ok(0)
    /\ call.op = "set_data_offset"
          => call.res = IF call.arg[1] # 0 THEN Err("PARRECError") ELSE Ok(<<>>)
    /\ call.op = "raw_data_from_fileobj"
          => (IsOk(call.res) /\ call.res.val.offset = 0)

\* C10: after any sequence of set_data_offset calls get_data_offset returns
\* 0; set_data_offset(v) fails for every v # 0 and succeeds for v = 0, and in
\* both cases leaves the header as it was; raw_data_from_fileobj reads from
\* offset 0.
C10_OffsetAlwaysZero ==
    /\ []OffsetCalls
    /\ [][call'.op = "set_data_offset" => UNCHANGED hdr]_vars

C10_Witness ==
    /\ obj = "live"
    /\ call.op = "set_data_offset"
    /\ call.arg = <<352>>
    /\ call.res = Err("PARRECError")
    /\ _slice_orientation # "None"

(***************************************************************************)
(* The PAR file parser, parse_PAR_header. A line is a string; strip,       *)
(* startswith, find, count, split, int and float are computed character by *)
(* character. int and float read decimal notation (an optional sign,       *)
(* digits, for float an optional point and more digits); the lines of the  *)
(* model use no other notation.                                            *)
(***************************************************************************)
whitespace == {" ", "\t", "\n"}

\* s[i], i counted from 0.
CharAt(s, i) == SubSeq(s, i + 1, i + 1)

\* s[a:b] for 0 <= a, clipped to the string like a Python slice.
Slice(s, a, b) == SubSeq(s, a + 1, IF b > Len(s) THEN Len(s) ELSE b)

RECURSIVE lstrip_at(_, _)
lstrip_at(s, i) ==
    IF i < Len(s) /\ CharAt(s, i) \in whitespace THEN lstrip_at(s, i + 1) ELSE i

RECURSIVE rstrip_at(_, _)
rstrip_at(s, j) ==
    IF j > 0 /\ CharAt(s, j - 1) \in whitespace THEN rstrip_at(s, j - 1) ELSE j

\* str.strip()
str_strip(s) ==
    \*  the first and one past the last character that is not whitespace
    LET ab == CHOOSE r \in {<<lstrip_at(s, 0), rstrip_at(s, Len(s))>>} : TRUE
    IN  IF ab[1] >= ab[2] THEN "" ELSE Slice(s, ab[1], ab[2])

\* str.startswith(prefix)
str_startswith(s, prefix) ==
    Len(s) >= Len(prefix) /\ Slice(s, 0, Len(prefix)) = prefix

\* The least number of a set of numbers that is not empty.
Least(S) == CHOOSE i \in S : \A j \in S : i <= j

\* str.find(c) for a one-character c: the lowest index, or -1.
str_find(s, c) ==
    LET at == {i \in 0..(Len(s) - 1) : CharAt(s, i) = c}
    IN  IF at = {} THEN -1 ELSE Least(at)

\* str.count(sub), for a sub that cannot overlap itself.
str_count(s, sub) ==
    Cardinality({i \in 0..(Len(s) - Len(sub)) : Slice(s, i, i + Len(sub)) = sub})

\* The numbers of a set that lie in lo..hi, in increasing order.
RECURSIVE Sorted(_, _, _)
Sorted(S, lo, hi) ==
    IF lo > hi THEN <<>>
    ELSE IF lo = hi THEN IF lo \in S THEN <<lo>> ELSE <<>>
    ELSE Sorted(S, lo, (lo + hi) \div 2) \o Sorted(S, (lo + hi) \div 2 + 1, hi)

\* The maximal runs of characters that are not whitespace, in order, given
\* where they start and where they end.
Runs(s, starts, ends) == [k \in 1..Len(starts) |-> Slice(s, starts[k], ends[k] + 1)]

\* str.split(): the maximal runs of characters that are not whitespace.
str_split(s) ==
    CHOOSE r \in {Runs(s, Sorted({i \in black : i - 1 \notin black}, 0, Len(s) - 1),
                       Sorted({i \in black : i + 1 \notin black}, 0, Len(s) - 1)) :
                  black \in {{i \in 0..(Len(s) - 1) : CharAt(s, i) \notin whitespace}}}
           : TRUE

RECURSIVE str_join(_, _)
\* " ".join(items)
str_join(items, i) ==
    IF i > Len(items) THEN ""
    ELSE IF i = Len(items) THEN items[i]
    ELSE items[i] \o " " \o str_join(items, i + 1)

Digits == "0123456789"

IsDigit(c) == \E d \in 0..9 : CharAt(Digits, d) = c

DigitVal(c) == CHOOSE d \in 0..9 : CharAt(Digits, d) = c

RECURSIVE digits_val(_, _, _)
\* The number a string of digits writes; -1 if another character is in it.
digits_val(s, i, acc) ==
    IF i >= Len(s) THEN acc
    ELSE IF ~IsDigit(CharAt(s, i)) THEN -1
    ELSE digits_val(s, i + 1, 10 * acc + DigitVal(CharAt(s, i)))

RECURSIVE Pow10(_)
Pow10(k) == IF k = 0 THEN 1 ELSE 10 * Pow10(k - 1)

\* The sign and the unsigned rest of a number's text.
Signed(s) ==
    IF str_startswith(s, "-") THEN <<-1, Slice(s, 1, Len(s))>>
    ELSE IF str_startswith(s, "+") THEN <<1, Slice(s, 1, Len(s))>>
    ELSE <<1, s>>

\* int(text)
int(text) ==
    LET sg == Signed(str_strip(text))
        n == IF sg[2] = "" THEN -1 ELSE digits_val(sg[2], 0, 0)
    IN  IF n < 0 THEN Err("ValueError") ELSE Ok(sg[1] * n)

\* float(text)
float(text) ==
    LET sg == Signed(str_strip(text))
        dot == str_find(sg[2], ".")
        ipart == IF dot < 0 THEN sg[2] ELSE Slice(sg[2], 0, dot)
        fpart == IF dot < 0 THEN "" ELSE Slice(sg[2], dot + 1, Len(sg[2]))
        i == digits_val(ipart, 0, 0)
        f == digits_val(fpart, 0, 0)
    IN  IF (ipart = "" /\ fpart = "") \/ i < 0 \/ f < 0 THEN Err("ValueError")
        ELSE Ok(RNorm(sg[1] * (i * Pow10(Len(fpart)) + f), Pow10(Len(fpart))))

\* The cast a schema entry names.
Cast(type, text) == IF type = "int" THEN int(text) ELSE float(text)

RECURSIVE fromstring_items(_, _, _, _)
fromstring_items(type, items, i, acc) ==
    IF i > Len(items) THEN acc
    ELSE LET v == Cast(type, items[i])
         IN  IF IsOk(v) THEN fromstring_items(type, items, i + 1, Append(acc, v.val))
             ELSE acc

\* np.fromstring(text, type, sep=' '): the numbers of the text, up to the
\* first item that is not a number.
np_fromstring(text, type) == fromstring_items(type, str_split(text), 1, <<>>)

\* PAR header versions the parser claims to understand.
supported_versions == {"V4.2"}

\* key -> (shortname[, dtype[, shape]])
_hdr_key_dict ==
    [k \in {"Patient name"} |-> <<"patient_name">>]
    @@ [k \in {"Examination name"} |-> <<"exam_name">>]
    @@ [k \in {"Protocol name"} |-> <<"protocol_name">>]
    @@ [k \in {"Examination date/time"} |-> <<"exam_date">>]
    @@ [k \in {"Series Type"} |-> <<"series_type">>]
    @@ [k \in {"Acquisition nr"} |-> <<"acq_nr", "int">>]
    @@ [k \in {"Reconstruction nr"} |-> <<"recon_nr", "int">>]
    @@ [k \in {"Scan Duration [sec]"} |-> <<"scan_duration", "float">>]
    @@ [k \in {"Max. number of cardiac phases"} |-> <<"max_cardiac_phases", "int">>]
    @@ [k \in {"Max. number of echoes"} |-> <<"max_echoes", "int">>]
    @@ [k \in {"Max. number of slices/locations"} |-> <<"max_slices", "int">>]
    @@ [k \in {"Max. number of dynamics"} |-> <<"max_dynamics", "int">>]
    @@ [k \in {"Max. number of mixes"} |-> <<"max_mixes", "int">>]
    @@ [k \in {"Patient position"} |-> <<"patient_position">>]
    @@ [k \in {"Preparation direction"} |-> <<"prep_direction">>]
    @@ [k \in {"Technique"} |-> <<"tech">>]
    @@ [k \in {"Scan resolution  (x, y)"} |-> <<"scan_resolution", "int", <<2>>>>]
    @@ [k \in {"Scan mode"} |-> <<"san_mode">>]
    @@ [k \in {"Repetition time [ms]"} |-> <<"repetition_time", "float">>]
    @@ [k \in {"FOV (ap,fh,rl) [mm]"} |-> <<"fov", "float", <<3>>>>]
    @@ [k \in {"Water Fat shift [pixels]"} |-> <<"water_fat_shift", "float">>]
    @@ [k \in {"Angulation midslice(ap,fh,rl)[degr]"} |-> <<"angulation", "float", <<3>>>>]
    @@ [k \in {"Off Centre midslice(ap,fh,rl) [mm]"} |-> <<"off_center", "float", <<3>>>>]
    @@ [k \in {"Flow compensation <0=no 1=yes> ?"} |-> <<"flow_compensation", "int">>]
    @@ [k \in {"Presaturation     <0=no 1=yes> ?"} |-> <<"presaturation", "int">>]
    @@ [k \in {"Phase encoding velocity [cm/sec]"} |-> <<"phase_enc_velocity", "float", <<3>>>>]
    @@ [k \in {"MTC               <0=no 1=yes> ?"} |-> <<"mtc", "int">>]
    @@ [k \in {"SPIR              <0=no 1=yes> ?"} |-> <<"spir", "int">>]
    @@ [k \in {"EPI factor        <0,1=no EPI>"} |-> <<"epi_factor", "int">>]
    @@ [k \in {"Dynamic scan      <0=no 1=yes> ?"} |-> <<"dyn_scan", "int">>]
    @@ [k \in {"Diffusion         <0=no 1=yes> ?"} |-> <<"diffusion", "int">>]
    @@ [k \in {"Diffusion echo time [ms]"} |-> <<"diffusion_echo_time", "float">>]
    @@ [k \in {"Max. number of diffusion values"} |-> <<"max_diffusion_values", "int">>]
    @@ [k \in {"Max. number of gradient orients"} |-> <<"max_gradient_orient", "int">>]
    @@ [k \in {"Number of label types   <0=no ASL>"} |-> <<"nr_label_types", "int">>]

\* The items of an image-definition line, in order: (name, dtype[, shape]).
image_def_dtype ==
    << <<"slice number", "int">>, <<"echo number", "int">>,
       <<"dynamic scan number", "int">>, <<"cardiac phase number", "int">>,
       <<"image_type_mr", "int">>, <<"scanning sequence", "int">>,
       <<"index in REC file", "int">>, <<"image pixel size", "int">>,
       <<"scan percentage", "int">>, <<"recon resolution", "int", <<2>>>>,
       <<"rescale intercept", "float">>, <<"rescale slope", "float">>,
       <<"scale slope", "float">>, <<"window center", "int">>,
       <<"window width", "int">>, <<"image angulation", "float", <<3>>>>,
       <<"image offcentre", "float", <<3>>>>, <<"slice thickness", "float">>,
       <<"slice gap", "float">>, <<"image_display_orientation", "int">>,
       <<"slice orientation", "int">>, <<"fmri_status_indication", "int">>,
       <<"image_type_ed_es", "int">>, <<"pixel spacing", "float", <<2>>>>,
       <<"echo_time", "float">>, <<"dyn_scan_begin_time", "float">>,
       <<"trigger_time", "float">>, <<"diffusion_b_factor", "float">>,
       <<"number of averages", "int">>, <<"image_flip_angle", "float">>,
       <<"cardiac frequency", "int">>, <<"minimum RR-interval", "int">>,
       <<"maximum RR-interval", "int">>, <<"TURBO factor", "int">>,
       <<"Inversion delay", "float">>, <<"diffusion b value number", "int">>,
       <<"gradient orientation number", "int">>, <<"contrast type", "S30">>,
       <<"diffusion anisotropy type", "S30">>, <<"diffusion", "float", <<3>>>>,
       <<"label type", "int">> >>

\* The mutant: a key the schema does not know is stored under its own name.
general_info_line_lenient(line) ==
    LET first_colon == str_find(Slice(line, 1, Len(line)), ":") + 1
        key == str_strip(Slice(line, 1, first_colon))
        value == str_strip(Slice(line, first_colon + 1, Len(line)))
    IN  Ok(<<key, value>>)

\* parse_PAR_header, a line that starts with '.': the entry (short name,
\* value) it puts into general_info, or the exception it raises.
general_info_line(line) ==
    LET first_colon == str_find(Slice(line, 1, Len(line)), ":") + 1
        key == str_strip(Slice(line, 1, first_colon))
        value == str_strip(Slice(line, first_colon + 1, Len(line)))
    IN  IF key \notin DOMAIN _hdr_key_dict THEN Err("KeyError")
        ELSE LET props == _hdr_key_dict[key]
             IN  IF Len(props) = 2
                 THEN LET v == Cast(props[2], value)
                      IN  IF IsOk(v) THEN Ok(<<props[1], v.val>>) ELSE v
                 ELSE IF Len(props) = 3
                 THEN LET v == np_fromstring(value, props[2])
                      IN  \* value.shape = props[2]
                          IF Len(v) # np_prod(props[3]) THEN Err("ValueError")
                          ELSE Ok(<<props[1], v>>)
                 ELSE Ok(<<props[1], value>>)

\* What the first loop of parse_PAR_header holds before it reads a line.
NoLines == [status |-> "ok", general_info |-> <<>>, image_info |-> <<>>,
            warnings |-> <<>>]

\* The mutant: an image-definition line is put in front of those read so far.
read_line_prepend(line, st) ==
    IF str_startswith(line, "#")
    THEN \* try to get the header version
         IF str_count(line, "image export tool") > 0
         THEN LET items == str_split(line)
                  version == items[Len(items)]
              IN  IF version \notin supported_versions
                  THEN [st EXCEPT !.warnings = Append(@, version)]
                  ELSE st
         ELSE st
    ELSE IF str_startswith(line, ".")
    THEN LET g == CHOOSE r \in {general_info_line(line)} : TRUE
         IN  IF IsOk(g)
             THEN [st EXCEPT !.general_info = (g.val[1] :> g.val[2]) @@ @]
             ELSE [st EXCEPT !.status = g.status]
    ELSE IF line # ""
    THEN [st EXCEPT !.image_info = <<line>> \o @]
    ELSE st

\* parse_PAR_header, the body of the single pass through the file, for one
\* stripped line: a comment or the version marker, general information, or
\* an image-definition line set aside for the second loop.
read_line(line, st) ==
    IF str_startswith(line, "#")
    THEN \* try to get the header version
         IF str_count(line, "image export tool") > 0
         THEN LET items == str_split(line)
                  version == items[Len(items)]
              IN  IF version \notin supported_versions
                  THEN [st EXCEPT !.warnings = Append(@, version)]
                  ELSE st
         ELSE st
    ELSE IF str_startswith(line, ".")
    THEN LET g == CHOOSE r \in {general_info_line(line)} : TRUE
         IN  IF IsOk(g)
             THEN [st EXCEPT !.general_info = (g.val[1] :> g.val[2]) @@ @]
             ELSE [st EXCEPT !.status = g.status]
    ELSE IF line # ""
    THEN [st EXCEPT !.image_info = Append(@, line)]
    ELSE st

\* parse_PAR_header, the single pass through the lines of the file from line
\* i on; an exception ends it.
RECURSIVE read_lines(_, _, _)
read_lines(lines, i, st) ==
    IF i > Len(lines) \/ st.status # "ok" THEN st
    ELSE CHOOSE r \in {read_lines(lines, j, t) :
                       j \in {i + 1},
                       t \in {read_line(ln, st) : ln \in {str_strip(lines[i])}}} : TRUE

\* What assigning k parsed numbers to an array field of n elements stores:
\* the numbers, one number repeated n times, or nothing (ValueError).
np_assign(v, n) ==
    IF Len(v) = n THEN Ok(v)
    ELSE IF Len(v) = 1 THEN Ok([j \in 1..n |-> v[1]])
    ELSE Err("ValueError")

\* parse_PAR_header, the p-th property of an image-definition line: the
\* value stored for it and the number of items it takes, or the exception.
read_item(items, props, item_counter) ==
    IF props[2] = "S30"
    THEN \* simple string: the first 30 bytes are kept
         IF item_counter >= Len(items) THEN Err("IndexError")
         ELSE Ok(<<Slice(items[item_counter + 1], 0, 30), 1>>)
    ELSE IF Len(props) = 2
    THEN \* prop with numerical dtype
         IF item_counter >= Len(items) THEN Err("IndexError")
         ELSE LET c == CHOOSE r \in {Cast(props[2], items[item_counter + 1])} : TRUE
              IN  IF IsOk(c) THEN Ok(<<c.val, 1>>) ELSE c
    ELSE \* array prop with dtype
         LET nelements == np_prod(props[3])
             itms == Slice(items, item_counter, item_counter + nelements)
             a == CHOOSE r \in {np_assign(np_fromstring(str_join(itms, 1), props[2]),
                                          nelements)} : TRUE
         IN  IF IsOk(a) THEN Ok(<<a.val, nelements>>) ELSE a

\* parse_PAR_header, the items of one image-definition line from the p-th
\* property on: the record, or the exception raised.
RECURSIVE read_items(_, _, _, _)
read_items(items, p, item_counter, row) ==
    IF p > Len(image_def_dtype) THEN Ok(row)
    ELSE CHOOSE r \in {IF ~IsOk(w) THEN w
                       ELSE read_items(items, p + 1, item_counter + w.val[2],
                                       (image_def_dtype[p][1] :> w.val[1]) @@ row) :
                       w \in {read_item(items, image_def_dtype[p], item_counter)}}
                : TRUE

\* parse_PAR_header, the second loop: one record per image-definition line.
RECURSIVE read_image_info(_, _, _)
read_image_info(image_info, i, defs) ==
    IF i > Len(image_info) THEN Ok(defs)
    ELSE CHOOSE x \in {IF ~IsOk(r) THEN r
                       ELSE read_image_info(image_info, i + 1, Append(defs, r.val)) :
                       r \in {read_items(str_split(image_info[i]), 1, 0, <<>>)}}
                : TRUE

\* What parse_PAR_header returns or raises after its first loop ended as st.
parse_image_info(st) ==
    IF st.status # "ok"
    THEN [res |-> Err(st.status), warnings |-> st.warnings]
    ELSE CHOOSE x \in {[res |-> IF IsOk(defs) THEN Ok(<<st.general_info, defs.val>>)
                                ELSE defs,
                         warnings |-> st.warnings] :
                       defs \in {read_image_info(st.image_info, 1, <<>>)}} : TRUE

\* parse_PAR_header(fobj): what it returns or raises, and the warnings issued.
parse_PAR_header(lines) ==
    CHOOSE x \in {parse_image_info(st) : st \in {read_lines(lines, 1, NoLines)}} : TRUE

Call_parse_PAR_header ==
    /\ \E r \in {parse_PAR_header(fobj)} :
           call' = [op |-> "parse_PAR_header", arg |-> <<>>, res |-> r.res,
                    warnings |-> r.warnings]
    /\ UNCHANGED <<hdr, init_log, env>>

(***************************************************************************)
(* SpecParse: parse_PAR_header on PAR files of up to MaxLines lines.       *)
(***************************************************************************)
CommentLine == "# === IMAGE INFORMATION DEFINITION ===\n"

VersionLine == "# CLINICAL TRYOUT    Research image export tool     V4.2\n"

OldVersionLine == "# CLINICAL TRYOUT    Research image export tool     V4\n"

BlankLine == "  \n"

DynamicsLine2 == ".    Max. number of dynamics            :   2\n"

DynamicsLine5 == ".    Max. number of dynamics            :   5\n"

FovLine == ".    FOV (ap,fh,rl) [mm]                :   130.0 30.5 130.0\n"

\* A key the schema does not have.
UnknownKeyLine == ".    Number of stacks                   :   1\n"

NoColonLine == ".    Technique\n"

\* The first 48 items of an image-definition line: every property but the
\* last, 'label type'.
DefItems(slice, recon) ==
    "  " \o slice \o " 1 1 1 0 2 0 16 100 " \o recon \o " 0.0 1.5 2.0 1070 1860"
    \o " 0.0 0.0 0.0 -1.5 0.0 0.0 6.0 2.0 0 1 0 2 3.75 3.75 30.0 0.0 0.0 0.0"
    \o " 1 90.0 0 0 0 39 0.0 1 1 7 0 0.0 0.0 0.0"

DefLine1 == DefItems("1", "64 64") \o " 1\n"

\* 50 items: one more than the schema takes.
DefLine2 == DefItems("2", "64 80") \o " 1 99\n"

\* 48 items: 'label type' is missing.
ShortDefLine == DefItems("4", "64 64") \o "\n"

\* 10 items: the line ends after the first of the two recon resolutions.
ShortDefLine10 == "  5 1 1 1 0 2 0 16 100 64\n"

\* The lines that make the content of a file, and the comment lines.
ContentLines ==
    {BlankLine, DynamicsLine2, DynamicsLine5, FovLine, UnknownKeyLine,
     NoColonLine, DefLine1, DefLine2, ShortDefLine, ShortDefLine10}

HashLines == {CommentLine, VersionLine, OldVersionLine}

\* Files of up to MaxLines content lines, alone or with one comment line
\* before, between or after them.
Files ==
    LET contents == UNION {[1..n -> ContentLines] : n \in 0..MaxLines}
    IN  contents
        \cup UNION {{SubSeq(c, 1, k) \o <<h>> \o SubSeq(c, k + 1, Len(c)) :
                      k \in 0..Len(c), h \in HashLines} : c \in contents}

InitParse ==
    /\ general_info = BaseInfo
    /\ image_defs = <<BaseDef>>
    /\ default_scaling = "omitted"
    /\ _slice_orientation = "None"
    /\ obj = "new"
    /\ dtype = "None"
    /\ shape = <<>>
    /\ zooms = <<>>
    /\ init_log = NoLog
    /\ call = NoCall
    /\ fobj \in Files
    /\ copied = <<>>

NextParse == Call_parse_PAR_header

SpecParse == InitParse /\ [][NextParse]_vars

\* parse_PAR_header has been called on the file.
ParseCalled == call.op = "parse_PAR_header"

\* The i-th line of the file without its surrounding whitespace.
Stripped(i) == str_strip(fobj[i])

IsHash(line) == str_startswith(str_strip(line), "#")

\* The numbers of the lines that start with '.', and of the non-empty lines
\* that start with neither '#' nor '.'.
DotIdx == {i \in 1..Len(fobj) : str_startswith(Stripped(i), ".")}

RowIdx ==
    {i \in 1..Len(fobj) :
        /\ Stripped(i) # ""
        /\ ~str_startswith(Stripped(i), "#")
        /\ ~str_startswith(Stripped(i), ".")}

\* The k-th smallest number of a set of numbers.
Kth(S, k) == CHOOSE i \in S : Cardinality({j \in S : j < i}) = k - 1

\* The text between the leading dot and the first colon of the i-th line,
\* trimmed; no text if the line has no colon.
KeyOf(i) ==
    LET colon == str_find(Stripped(i), ":")
    IN  IF colon < 0 THEN "" ELSE str_strip(Slice(Stripped(i), 1, colon))

ShortName(i) == _hdr_key_dict[KeyOf(i)][1]

\* The number of items the p-th property of the image-definition schema
\* takes, and the number of items the properties before it take.
FieldSize(p) ==
    IF Len(image_def_dtype[p]) = 3 THEN np_prod(image_def_dtype[p][3]) ELSE 1

FieldStart(p) ==
    Cardinality({qj \in (1..(p - 1)) \X (1..3) : qj[2] <= FieldSize(qj[1])})

\* The record the items of an image-definition line stand for: each property
\* is read from its own items, in the order of the schema.
RowFrom(items) ==
    [name \in {image_def_dtype[p][1] : p \in 1..Len(image_def_dtype)} |->
        LET p == CHOOSE q \in 1..Len(image_def_dtype) : image_def_dtype[q][1] = name
            props == image_def_dtype[p]
            a == FieldStart(p)
        IN  IF props[2] = "S30" THEN items[a + 1]
            ELSE IF Len(props) = 2 THEN Cast(props[2], items[a + 1]).val
            ELSE [j \in 1..FieldSize(p) |-> Cast(props[2], items[a + j]).val]]

\* The version tokens of the version-marker lines whose version is not
\* supported, in file order.
UnsupportedVersions ==
    LET marked == {i \in 1..Len(fobj) :
                     /\ IsHash(fobj[i])
                     /\ str_count(fobj[i], "image export tool") > 0
                     /\ str_split(fobj[i])[Len(str_split(fobj[i]))]
                            \notin supported_versions}
    IN  [k \in 1..Cardinality(marked) |->
            str_split(fobj[Kth(marked, k)])[Len(str_split(fobj[Kth(marked, k)]))]]

\* The table has one row per image-definition line, in file order.
TableFollowsFile(table) ==
    /\ Len(table) = Cardinality(RowIdx)
    /\ \A k \in 1..Len(table) :
           \E items \in {str_split(fobj[Kth(RowIdx, k)])} : table[k] = RowFrom(items)

\* general-info has an entry for every '.'-line, under the short name of its
\* key, and no other entry; the entry holds the value of the last '.'-line
\* with that key.
InfoFollowsFile(info) ==
    /\ DOMAIN info = {ShortName(i) : i \in DotIdx}
    /\ \A i \in DotIdx :
           (\A j \in DotIdx : j > i => ShortName(j) # ShortName(i))
               => info[ShortName(i)] = general_info_line(Stripped(i)).val[2]

\* C11: when parse_PAR_header returns, the table has exactly one row per
\* non-empty line that starts with neither '#' nor '.', in file order (the
\* i-th row holds the items of the i-th such line), and general-info has one
\* entry per '.'-line, keyed by the short name of the schema; the lines that
\* start with '#' never abort the parse and never change what it returns or
\* raises: a version marker with an unsupported version only adds a warning.
\* Lines are classified by their text without surrounding whitespace.
C11_ParsedTable ==
    ParseCalled =>
        /\ IsOk(call.res) =>
               /\ InfoFollowsFile(call.res.val[1])
               /\ TableFollowsFile(call.res.val[2])
               /\ call.warnings = UnsupportedVersions
        /\ call.res = parse_PAR_header(SelectSeq(fobj, LAMBDA l : ~IsHash(l))).res

\* Two image-definition lines in the order 2, 1 with an unsupported version
\* marker between them, parsed: the rows are those of slices 2 and 1.
C11_Witness ==
    /\ ParseCalled
    /\ fobj = <<DefLine2, OldVersionLine, DefLine1>>
    /\ IsOk(call.res)
    /\ call.warnings = <<"V4">>
    /\ Len(call.res.val[2]) = 2
    /\ call.res.val[2][1]["slice number"] = 2
    /\ call.res.val[2][1]["recon resolution"] = <<64, 80>>
    /\ call.res.val[2][2]["slice number"] = 1

\* C12: parse_PAR_header returns only if the trimmed key of every '.'-line is
\* in the general-info schema and every image-definition line has at least
\* the 49 items the schema takes; otherwise it raises, and returns nothing.
C12_ParseAborts ==
    ParseCalled =>
        /\ IsOk(call.res) =>
               /\ \A i \in DotIdx : KeyOf(i) \in DOMAIN _hdr_key_dict
               /\ \A i \in RowIdx : Len(str_split(fobj[i])) >= 49
        /\ FieldStart(Len(image_def_dtype)) + FieldSize(Len(image_def_dtype)) = 49
        /\ ~IsOk(call.res) =>
               /\ call.res.status \in {"KeyError", "IndexError", "ValueError"}
               /\ call.res.val = <<>>

\* A known '.'-line followed by an image-definition line of 10 items, the
\* last of them alone for the two recon resolutions: the parse raises.
C12_Witness ==
    /\ ParseCalled
    /\ fobj = <<FovLine, ShortDefLine10>>
    /\ call.res = Err("IndexError")

(***************************************************************************)
(* What the derivation calls leave alone, under Spec.                      *)
(***************************************************************************)
DerivationOps ==
    {"get_voxel_size", "_get_zooms", "get_ndim", "get_data_shape_in_file",
     "get_affine", "get_data_scaling", "get_slope_inter",
     "get_slice_orientation"}

\* The labels a slice orientation code can stand for.
Labels == {slice_orientation_codes[c] : c \in DOMAIN slice_orientation_codes}

\* A step that is a derivation call, successful or not.
DerivationStep ==
    /\ UNCHANGED <<general_info, image_defs, default_scaling, obj, dtype,
                   shape, zooms>>
    /\ _slice_orientation # "None" => UNCHANGED _slice_orientation
    /\ _slice_orientation' # _slice_orientation
          => /\ _slice_orientation' \in Labels
             /\ call'.op \in {"get_slice_orientation", "get_affine"}
             /\ IsOk(call'.res)
    /\ call'.op = "get_slice_orientation"
          => IF IsOk(call'.res)
             THEN /\ _slice_orientation' = call'.res.val
                  /\ _slice_orientation' \in Labels
             ELSE _slice_orientation' = "None"

\* C13: a derivation call (get_voxel_size, _get_zooms, get_ndim,
\* get_data_shape_in_file, get_affine, get_data_scaling, get_slope_inter,
\* get_slice_orientation), successful or failing, leaves general_info,
\* image_defs and default_scaling (and dtype, shape, zooms) unchanged; the
\* cached slice orientation changes at most once, from unset to a label, on a
\* successful orientation lookup; once set it never changes and every later
\* get_slice_orientation returns it; a failing get_slice_orientation leaves
\* it unset.
C13_OnlyCacheChanges == [][call'.op \in DerivationOps => DerivationStep]_vars

\* A failing derivation call made after the orientation was cached.
C13_Witness ==
    /\ obj = "live"
    /\ _slice_orientation = "coronal"
    /\ call.op = "get_data_scaling"
    /\ call.res = Err("ValueError")

(***************************************************************************)
(* The lengths of the zoom vector and of the shape, under SpecZooms.       *)
(***************************************************************************)
\* C14: whenever get_data_shape_in_file and _get_zooms both succeed on the
\* same general_info and table, the zoom vector has as many entries as the
\* shape: get_ndim is 4 exactly when the shape has a 4th entry.
C14_ZoomsMatchShape ==
    (IsOk(init_log.shape) /\ IsOk(init_log.zooms))
        => /\ Len(init_log.zooms.val) = Len(init_log.shape.val)
           /\ get_ndim(general_info) = 4 <=> Len(init_log.shape.val) = 4

(***************************************************************************)
(* Copies. copied holds the header copy() returned, if any: its fields,    *)
(* and aliases, the attributes of the original that the copy's attribute   *)
(* of the same name is the same object as.                                 *)
(***************************************************************************)
\* PARRECHeader(info, image_defs, default_scaling): the fields of the new
\* header, or the first exception of its __init__.
PARRECHeader(info, defs, scaling) ==
    LET pix == _get_unique_image_prop(defs, "image pixel size")
        dt == IF IsOk(pix) THEN np_typeDict_int(pix.val[1]) ELSE pix
        shp == IF IsOk(dt) THEN get_data_shape_in_file(info, defs) ELSE dt
        zms == IF IsOk(shp) THEN _get_zooms(info, defs) ELSE shp
    IN  IF IsOk(zms)
        THEN Ok([general_info |-> info, image_defs |-> defs,
                 default_scaling |-> scaling, _slice_orientation |-> "None",
                 dtype |-> dt.val, shape |-> shp.val, zooms |-> zms.val])
        ELSE zms

\* PARRECHeader.copy: a header built from a deep copy of general_info and a
\* copy of image_defs, and no default_scaling argument.
copy(info, defs) ==
    LET h == PARRECHeader(info, defs, "dv")
    IN  IF IsOk(h) THEN Ok(h.val @@ [aliases |-> {}]) ELSE h

\* What from_header may be given: nothing, this header, a header of another
\* class.
HeaderArgs == {"None", "PARRECHeader", "Header"}

\* PARRECHeader.from_header(header)
from_header(header, info, defs) ==
    IF header = "None" THEN Err("PARRECError")
    ELSE IF header = "PARRECHeader" THEN copy(info, defs)
    ELSE Err("PARRECError")

Call_copy ==
    /\ obj = "live"
    /\ \E r \in {copy(general_info, image_defs)} :
           /\ call' = [op |-> "copy", arg |-> <<>>,
                       res |-> IF IsOk(r) THEN Ok(<<>>) ELSE r]
           /\ copied' = IF IsOk(r) THEN <<r.val>> ELSE copied
    /\ UNCHANGED <<hdr, init_log, fobj>>

Call_from_header ==
    /\ obj = "live"
    /\ \E header \in HeaderArgs :
         \E r \in {from_header(header, general_info, image_defs)} :
           /\ call' = [op |-> "from_header", arg |-> <<header>>,
                       res |-> IF IsOk(r) THEN Ok(<<>>) ELSE r]
           /\ copied' = IF IsOk(r) THEN <<r.val>> ELSE copied
    /\ UNCHANGED <<hdr, init_log, fobj>>

\* Values a caller writes into a header it holds.
RepetitionTimes == {F(2000), F(3000)}

RescaleSlopes == {<<3, 2>>, F(4)}

\* A caller assigns general_info['repetition_time'] of the original header:
\* the copy sees it if its general_info is the same object.
Set_general_info ==
    /\ obj = "live"
    /\ \E tr \in RepetitionTimes :
           /\ general_info' = [general_info EXCEPT !.repetition_time = tr]
           /\ copied' = IF copied # <<>> /\ "general_info" \in copied[1].aliases
                        THEN [copied EXCEPT ![1].general_info.repetition_time = tr]
                        ELSE copied
           /\ call' = [op |-> "set general_info", arg |-> <<tr>>, res |-> Ok(<<>>)]
    /\ UNCHANGED <<image_defs, default_scaling, _slice_orientation, obj, dtype,
                   shape, zooms, init_log, fobj>>

\* A caller assigns image_defs['rescale slope'][0] of the original header.
Set_image_defs ==
    /\ obj = "live"
    /\ \E rs \in RescaleSlopes :
           /\ image_defs' = [image_defs EXCEPT ![1]["rescale slope"] = rs]
           /\ copied' = IF copied # <<>> /\ "image_defs" \in copied[1].aliases
                        THEN [copied EXCEPT ![1].image_defs[1]["rescale slope"] = rs]
                        ELSE copied
           /\ call' = [op |-> "set image_defs", arg |-> <<rs>>, res |-> Ok(<<>>)]
    /\ UNCHANGED <<general_info, default_scaling, _slice_orientation, obj,
                   dtype, shape, zooms, init_log, fobj>>

\* The same two assignments made through the copy.
Set_copied_general_info ==
    /\ copied # <<>>
    /\ \E tr \in RepetitionTimes :
           /\ copied' = [copied EXCEPT ![1].general_info.repetition_time = tr]
           /\ general_info' = IF "general_info" \in copied[1].aliases
                              THEN [general_info EXCEPT !.repetition_time = tr]
                              ELSE general_info
           /\ call' = [op |-> "set copied general_info", arg |-> <<tr>>,
                       res |-> Ok(<<>>)]
    /\ UNCHANGED <<image_defs, default_scaling, _slice_orientation, obj, dtype,
                   shape, zooms, init_log, fobj>>

Set_copied_image_defs ==
    /\ copied # <<>>
    /\ \E rs \in RescaleSlopes :
           /\ copied' = [copied EXCEPT ![1].image_defs[1]["rescale slope"] = rs]
           /\ image_defs' = IF "image_defs" \in copied[1].aliases
                            THEN [image_defs EXCEPT ![1]["rescale slope"] = rs]
                            ELSE image_defs
           /\ call' = [op |-> "set copied image_defs", arg |-> <<rs>>,
                       res |-> Ok(<<>>)]
    /\ UNCHANGED <<general_info, default_scaling, _slice_orientation, obj,
                   dtype, shape, zooms, init_log, fobj>>

(***************************************************************************)
(* SpecCopy: headers of 1..MaxRecs identical records, constructed with and *)
(* without default_scaling 'fp', copied and then written to.               *)
(***************************************************************************)
InitCopy ==
    InitWith({BaseInfo},
             Uniform(1, MaxRecs,
                     {[BaseDef EXCEPT !["slice orientation"] = so] : so \in 1..2}),
             {"omitted", "fp"})

NextCopy ==
    \/ __init__
    \/ Call_copy
    \/ Call_from_header
    \/ Set_general_info
    \/ Set_image_defs
    \/ Set_copied_general_info
    \/ Set_copied_image_defs
    \/ Call_get_slope_inter

SpecCopy == InitCopy /\ [][NextCopy]_vars

\* The step made a copy of the header.
Copied == call'.op \in {"copy", "from_header"} /\ IsOk(call'.res)

\* The affine a header with these fields gives for an origin.
AffineOf(info, defs, shp, zms, origin) ==
    get_affine(info, shp, zms, "None", defs, origin).res

\* The copy equals the original in all that can be observed of it.
SameAsOriginal ==
    /\ copied'[1].general_info = general_info'
    /\ copied'[1].image_defs = image_defs'
    /\ copied'[1].default_scaling = default_scaling'
    /\ get_slope_inter(copied'[1].image_defs, copied'[1].default_scaling)
           = get_slope_inter(image_defs', default_scaling')
    /\ copied'[1].dtype = dtype'
    /\ copied'[1].shape = shape'
    /\ copied'[1].zooms = zooms'
    /\ \A origin \in Origins :
           AffineOf(copied'[1].general_info, copied'[1].image_defs, copied'[1].shape,
                    copied'[1].zooms, origin)
               = AffineOf(general_info', image_defs', shape', zooms', origin)

\* A write to one header is not seen through the other.
Independent ==
    /\ call'.op \in {"set general_info", "set image_defs"} => UNCHANGED copied
    /\ call'.op \in {"set copied general_info", "set copied image_defs"}
           => UNCHANGED hdr

====
